---- MODULE Spec2Model ----
(***************************************************************************)
(* A model of the virtual list component (src/src/List.tsx): its           *)
(* positioning state, the height ledger, the scroll lock and the handlers  *)
(* that change them (componentDidMount, componentDidUpdate, onScroll,      *)
(* scrollTo, the two nested requestAnimationFrame callbacks).              *)
(*                                                                         *)
(* Scroll fractions are rationals; a rational is a pair <<num, den>> with  *)
(* den >= 1, and every floor / ceil of the helpers is computed exactly on  *)
(* integers.                                                               *)
(***************************************************************************)
EXTENDS Integers, Sequences, FiniteSets, TLC

\* ------------------------------------------------------------------ bounds
\* props.itemHeight (the assumed height of an item) of the component
ItemHeight == 2
\* the greatest measured height of an item's element
MaxNodeHeight == 2
\* the most calls the owner makes in a run: scrollTo with a target, and renders
\* with changed props
MaxOwnerCalls == 2
\* props.height (the viewport height; also listRef.current.clientHeight)
Height == 2 * ItemHeight
\* the shortest dataSource: render() takes the virtual branch only when
\* dataSource.length * itemHeight > height
MinLen == (Height \div ItemHeight) + 1
\* the longest dataSource
MaxLen == MinLen + 1
\* the greatest key an inserted item gets; a fresh key is never reused
MaxKey == MaxLen
\* props.itemHeight of the lists whose search loop is run step by step: the
\* miss boundary is passed only when more than ten candidate scrollTops keep the
\* compare item in the window
SearchItemHeight == 4
\* the longest dataSource of those lists
SearchMaxLen == 5
\* keys of real items
Keys == 1..(IF SearchMaxLen > MaxKey THEN SearchMaxLen ELSE MaxKey)

\* ------------------------------------------------------------ encodings
\* null (state.scrollTop before the first scroll, bestScrollTop before a match)
NULL == -1
\* GHOST_ITEM_KEY, the key of index dataSource.length
GHOST_ITEM_KEY == 0
\* the key getItemKey gives for a missing item (null)
NULL_KEY == -2
\* a ledger key with no entry (undefined)
ABSENT == -3
\* Number.MAX_VALUE
MAX_VALUE == 1000000
\* the miss boundary of the search loop
MISS_BOUNDARY == 10
\* const ITEM_SCALE_RATE
ITEM_SCALE_RATE == 1

LedgerKeys == Keys \cup {GHOST_ITEM_KEY, NULL_KEY}

Min(a, b) == IF a <= b THEN a ELSE b
Max(a, b) == IF a >= b THEN a ELSE b
Abs(a) == IF a < 0 THEN -a ELSE a
\* Math.ceil(a / b), b > 0
CeilDiv(a, b) == -((-a) \div b)
\* a null number used in arithmetic is 0
ToNum(x) == IF x = NULL THEN 0 ELSE x

\* ------------------------------------------------- utils/itemUtil (spec 4.1)
\* getScrollPercentage without the guard of a content that fits the viewport
getScrollPercentage_noGuard(scrollTop, scrollHeight, clientHeight) ==
  IF scrollTop <= 0 THEN <<0, 1>>
  ELSE IF scrollTop >= scrollHeight - clientHeight THEN <<1, 1>>
  ELSE <<scrollTop, scrollHeight - clientHeight>>

\* scrollFraction: scrollOffset / (scrollableHeight - viewportHeight) clamped
\* to [0,1], 0 when the content fits the viewport
getScrollPercentage(scrollTop, scrollHeight, clientHeight) ==
  LET scrollTopHeight == scrollHeight - clientHeight
  IN  IF scrollTopHeight <= 0 \/ scrollTop <= 0 THEN <<0, 1>>
      ELSE IF scrollTop >= scrollTopHeight THEN <<1, 1>>
      ELSE <<scrollTop, scrollTopHeight>>

\* Range Locator (spec 4.2): the located item is floor(fraction * n), its
\* offset fraction the remainder within the slice; the window reaches
\* ceil(fraction * v) items before and ceil((1 - fraction) * v) items after
\* the located item, clamped to [0, n-1]
getRangeIndex(scrollPtg, itemCount, visibleCount) ==
  LET num == scrollPtg[1]
      den == scrollPtg[2]
      index == (num * itemCount) \div den
      beforeCount == CeilDiv(num * visibleCount, den)
      afterCount == CeilDiv((den - num) * visibleCount, den)
  IN  [itemIndex |-> index,
       itemOffsetPtg |-> <<num * itemCount - index * den, den>>,
       startIndex |-> Max(0, index - beforeCount),
       endIndex |-> Min(itemCount - 1, index + afterCount)]

\* this.itemElementHeights[key] || 0
HeightOf(heights, key) == IF heights[key] = ABSENT THEN 0 ELSE heights[key]

\* getIndexKey(index, props): the ghost key at index length, null for a
\* missing item
getIndexKey(index, dataSource) ==
  IF index = Len(dataSource) THEN GHOST_ITEM_KEY
  ELSE IF index >= 0 /\ index < Len(dataSource) THEN dataSource[index + 1]
  ELSE NULL_KEY

\* Relative Top Calculator (spec 4.4): floor(scrollPtg * clientHeight -
\* itemOffsetPtg * height of the located item)
getItemRelativeTop(itemIndex, itemOffsetPtg, heights, scrollPtg, clientHeight, dataSource) ==
  LET locatedItemHeight == HeightOf(heights, getIndexKey(itemIndex, dataSource))
      a == itemOffsetPtg[1]
      b == itemOffsetPtg[2]
      c == scrollPtg[1]
      d == scrollPtg[2]
  IN  (c * clientHeight * b - a * locatedItemHeight * d) \div (d * b)

getItemAbsoluteTop(scrollTop, itemIndex, itemOffsetPtg, heights, scrollPtg, clientHeight, dataSource) ==
  scrollTop + getItemRelativeTop(itemIndex, itemOffsetPtg, heights, scrollPtg,
                                 clientHeight, dataSource)

\* walking backward from the located item to the compare item, subtracting
\* the ledger height of each item passed
RECURSIVE CompareWalkUp(_, _, _, _, _, _)
CompareWalkUp(index, top, compareItemKey, startIndex, dataSource, heights) ==
  IF index < startIndex THEN top
  ELSE IF getIndexKey(index, dataSource) = compareItemKey THEN top
  ELSE CompareWalkUp(index - 1,
                     top - HeightOf(heights, getIndexKey(index - 1, dataSource)),
                     compareItemKey, startIndex, dataSource, heights)

\* walking forward, adding the ledger height of each item passed
RECURSIVE CompareWalkDown(_, _, _, _, _, _)
CompareWalkDown(index, top, compareItemKey, endIndex, dataSource, heights) ==
  IF index > endIndex THEN top
  ELSE IF getIndexKey(index, dataSource) = compareItemKey THEN top
  ELSE CompareWalkDown(index + 1,
                       top + HeightOf(heights, getIndexKey(index, dataSource)),
                       compareItemKey, endIndex, dataSource, heights)

getCompareItemRelativeTop(locatedItemRelativeTop, locatedItemIndex, compareItemIndex, startIndex, endIndex, dataSource, heights) ==
  LET compareItemKey == getIndexKey(compareItemIndex, dataSource)
  IN  IF compareItemIndex <= locatedItemIndex
      THEN CompareWalkUp(locatedItemIndex, locatedItemRelativeTop, compareItemKey,
                         startIndex, dataSource, heights)
      ELSE CompareWalkDown(locatedItemIndex, locatedItemRelativeTop, compareItemKey,
                           endIndex, dataSource, heights)

\* -------------------------------------------- utils/algorithmUtil (spec 4.5, 4.6)
\* the index-th candidate of [min, max] by expanding distance from start:
\* start, start + 1, start - 1, start + 2, ... and, once one side is used up,
\* the rest of the other side
getIndexByStartLoc(min, max, start, index) ==
  LET beforeCount == start - min
      afterCount == max - start
      balanceCount == Min(beforeCount, afterCount) * 2
      stepIndex == index \div 2
  IN  IF index <= balanceCount
      THEN IF index % 2 = 1 THEN start + stepIndex + 1 ELSE start - stepIndex
      ELSE IF beforeCount > afterCount THEN start - (index - afterCount)
      ELSE start + (index - beforeCount)

\* the first index at which the two lists differ by key, scanning from the
\* front; NULL when they do not differ
findListDiffIndex(originList, targetList) ==
  LET longest == Max(Len(originList), Len(targetList))
      diff == {i \in 0..(longest - 1) :
                 getIndexKey(i, originList) # getIndexKey(i, targetList)
                 \/ i >= Len(originList) \/ i >= Len(targetList)}
  IN  IF diff = {} THEN NULL
      ELSE CHOOSE i \in diff : \A j \in diff : i <= j

\* ------------------------------------------------------------- the component
VARIABLES
  props,               \* this.props: [dataSource, disabled, itemHeight, height]
  cachedProps,         \* this.cachedProps; set = FALSE while it is still {}
  state,               \* this.state, the positioning state
  itemElementHeights,  \* this.itemElementHeights, the height ledger
  lockScroll,          \* this.lockScroll
  listScrollTop,       \* this.listRef.current.scrollTop
  scrollEvent,         \* a scroll notification of the container is undelivered
  rafFirst,            \* an outer requestAnimationFrame callback is scheduled
  rafSecond,           \* an inner requestAnimationFrame callback is scheduled
  mounted,             \* componentDidMount has run
  renderPending,       \* a setState is queued: React re-renders before any other event
  nodeHeights,         \* offsetHeight of the element of each key
  nextKey,             \* the key of the next inserted item
  ownerCalls,          \* the calls the owner has made (history)
  last,                \* what the last handler did (history)
  loop,                \* the locals of scrollTo's search loop, run step by step
  loopArg              \* the RelativeScroll of the search run step by step

vars == <<props, cachedProps, state, itemElementHeights, lockScroll, listScrollTop,
          scrollEvent, rafFirst, rafSecond, mounted, renderPending, nodeHeights,
          nextKey, ownerCalls, last, loop, loopArg>>

\* Math.ceil(height / itemHeight)
visibleCountOf(p) == CeilDiv(p.height, p.itemHeight)
\* scrollTo's scrollHeight: dataSource.length * itemHeight
scrollHeightOf(p) == Len(p.dataSource) * p.itemHeight
\* scrollTo's maxScrollTop: scrollHeight - clientHeight
maxScrollTopOf(p) == scrollHeightOf(p) - p.height
\* render's contentHeight, the height of the Filler and so the scrollHeight of
\* the container
contentHeightOf(p) == Len(p.dataSource) * p.itemHeight * ITEM_SCALE_RATE
\* "Render pure list if not set height or height is enough for all items":
\* that branch of render passes no ref, and this.listRef.current stays null
rendersPureList(p) == Len(p.dataSource) * p.itemHeight <= p.height
\* what the container keeps of an assigned scrollTop
ClampScrollTop(v, p) == Max(0, Min(v, contentHeightOf(p) - p.height))

\* getElementScrollPercentage(this.listRef.current)
getElementScrollPercentage(domScrollTop, p) ==
  getScrollPercentage(domScrollTop, contentHeightOf(p), p.height)

\* the heights the elements may have: all alike, or changing with the key
NodeHeightProfiles ==
  {[k \in Keys |-> MaxNodeHeight], [k \in Keys |-> 1 + (k % MaxNodeHeight)]}

\* getNodeHeight(this.itemElements[eleKey]): the elements of the real items of
\* the window are mounted, the ghost and the null key have no element
getNodeHeight(eleKey) == IF eleKey \in Keys THEN nodeHeights[eleKey] ELSE 0

\* collectFrom adding each measured height to the recorded one
RECURSIVE collectFrom_adding(_, _, _, _)
collectFrom_adding(index, endIndex, dataSource, heights) ==
  IF index > endIndex THEN heights
  ELSE LET eleKey == getIndexKey(index, dataSource)
       IN  collectFrom_adding(index + 1, endIndex, dataSource,
                              [heights EXCEPT ![eleKey] = HeightOf(heights, eleKey)
                                                          + getNodeHeight(eleKey)])

RECURSIVE collectFrom(_, _, _, _)
collectFrom(index, endIndex, dataSource, heights) ==
  IF index > endIndex THEN heights
  ELSE LET eleKey == getIndexKey(index, dataSource)
       IN  collectFrom(index + 1, endIndex, dataSource,
                       [heights EXCEPT ![eleKey] = getNodeHeight(eleKey)])

collectItemHeights(st, dataSource, heights) ==
  collectFrom(st.startIndex, st.endIndex, dataSource, heights)

\* ------------------------------------------------------------------ onScroll
\* onScrollSkips without the test of an unchanged scrollTop
onScrollSkips_noSameTest(domScrollTop) == lockScroll \/ props.disabled

\* "Skip if scrollTop not change to avoid shake"
onScrollSkips(domScrollTop) ==
  domScrollTop = state.scrollTop \/ lockScroll \/ props.disabled

\* onScrollState with the render window left as it was
onScrollState_staleWindow(domScrollTop) ==
  LET r == getRangeIndex(getElementScrollPercentage(domScrollTop, props),
                         Len(props.dataSource), visibleCountOf(props))
  IN  [state EXCEPT !.status = "MEASURE_START",
                    !.scrollTop = domScrollTop,
                    !.itemIndex = r.itemIndex,
                    !.itemOffsetPtg = r.itemOffsetPtg]

onScrollState(domScrollTop) ==
  LET r == getRangeIndex(getElementScrollPercentage(domScrollTop, props),
                         Len(props.dataSource), visibleCountOf(props))
  IN  [state EXCEPT !.status = "MEASURE_START",
                    !.scrollTop = domScrollTop,
                    !.itemIndex = r.itemIndex,
                    !.itemOffsetPtg = r.itemOffsetPtg,
                    !.startIndex = r.startIndex,
                    !.endIndex = r.endIndex]

onScroll(domScrollTop) ==
  IF onScrollSkips(domScrollTop) THEN state ELSE onScrollState(domScrollTop)

\* ------------------------------------------------------------------ scrollTo
\* the locals of the search loop before its first iteration
searchStart ==
  [i |-> 0, missSimilarity |-> 0, bestSimilarity |-> MAX_VALUE,
   bestScrollTop |-> NULL, bestItemIndex |-> NULL, bestItemOffsetPtg |-> <<0, 1>>,
   bestStartIndex |-> NULL, bestEndIndex |-> NULL, visited |-> 0, done |-> FALSE]

\* improves taking a candidate of equal similarity too
improves_orEqual(similarity, bestSimilarity) == similarity <= bestSimilarity

\* similarity < bestSimilarity
improves(similarity, bestSimilarity) == similarity < bestSimilarity

\* the break at the end of an iteration
missesOut(missSimilarity) == missSimilarity > MISS_BOUNDARY

\* searchContinues with the last candidate taken too
searchContinues_inclusive(i, maxScrollTop) == i <= maxScrollTop

\* the loop test
searchContinues(i, maxScrollTop) == i < maxScrollTop

\* one evaluation of the loop test and, when it passes, of the loop body;
\* visited counts the candidates evaluated
searchStep(s, arg, originScrollTop, p, heights) ==
  LET dataSource == p.dataSource
      scrollHeight == scrollHeightOf(p)
      clientHeight == p.height
      maxScrollTop == scrollHeight - clientHeight
  IN  IF ~searchContinues(s.i, maxScrollTop) THEN [s EXCEPT !.done = TRUE]
      ELSE
        LET scrollTop == getIndexByStartLoc(0, maxScrollTop, ToNum(originScrollTop), s.i)
            scrollPtg == getScrollPercentage(scrollTop, scrollHeight, clientHeight)
            r == getRangeIndex(scrollPtg, Len(dataSource), visibleCountOf(p))
            inWindow == r.startIndex <= arg.itemIndex /\ arg.itemIndex <= r.endIndex
            locatedItemRelativeTop ==
              getItemRelativeTop(r.itemIndex, r.itemOffsetPtg, heights, scrollPtg,
                                 clientHeight, dataSource)
            compareItemTop ==
              getCompareItemRelativeTop(locatedItemRelativeTop, r.itemIndex,
                                        arg.itemIndex, r.startIndex, r.endIndex,
                                        dataSource, heights)
            similarity == Abs(compareItemTop - arg.relativeTop)
            s1 == IF ~inWindow THEN s
                  ELSE IF improves(similarity, s.bestSimilarity)
                  THEN [s EXCEPT !.bestSimilarity = similarity,
                                 !.bestScrollTop = scrollTop,
                                 !.bestItemIndex = r.itemIndex,
                                 !.bestItemOffsetPtg = r.itemOffsetPtg,
                                 !.bestStartIndex = r.startIndex,
                                 !.bestEndIndex = r.endIndex,
                                 !.missSimilarity = 0]
                  ELSE [s EXCEPT !.missSimilarity = @ + 1]
            s2 == [s1 EXCEPT !.visited = @ + 1]
        IN  IF missesOut(s2.missSimilarity) THEN [s2 EXCEPT !.done = TRUE]
            ELSE [s2 EXCEPT !.i = @ + 1]

RECURSIVE searchLoop(_, _, _, _, _)
searchLoop(s, arg, originScrollTop, p, heights) ==
  IF s.done THEN s
  ELSE searchLoop(searchStep(s, arg, originScrollTop, p, heights),
                  arg, originScrollTop, p, heights)

\* "1. Find the best match compare item top"
search(arg, originScrollTop, p, heights) ==
  searchLoop(searchStart, arg, originScrollTop, p, heights)

\* scrollToState recording the first item of the window as the located item
scrollToState_startAsLocated(st, best) ==
  IF best.bestScrollTop = NULL THEN st
  ELSE [st EXCEPT !.status = "MEASURE_START",
                  !.scrollTop = best.bestScrollTop,
                  !.itemIndex = best.bestStartIndex,
                  !.itemOffsetPtg = best.bestItemOffsetPtg,
                  !.startIndex = best.bestStartIndex,
                  !.endIndex = best.bestEndIndex]

\* "2. Re-scroll if has best scroll match": the setState of scrollTo merged
\* into the pending state st
scrollToState(st, best) ==
  IF best.bestScrollTop = NULL THEN st
  ELSE [st EXCEPT !.status = "MEASURE_START",
                  !.scrollTop = best.bestScrollTop,
                  !.itemIndex = best.bestItemIndex,
                  !.itemOffsetPtg = best.bestItemOffsetPtg,
                  !.startIndex = best.bestStartIndex,
                  !.endIndex = best.bestEndIndex]

\* scrollToLock with the lock taken before the test of a best candidate
scrollToLock_beforeTest(best) == TRUE

\* this.lockScroll after scrollTo
scrollToLock(best) == IF best.bestScrollTop = NULL THEN lockScroll ELSE TRUE

\* requestAnimationFrame(() => ...): an outer callback is scheduled after scrollTo
scrollToRaf(best) == IF best.bestScrollTop = NULL THEN rafFirst ELSE TRUE

\* the inner callback: this.lockScroll = false
rafUnlock(lock) == FALSE

\* the relative top, by the Relative Top Calculator, of the item at index in a
\* positioning state st under props p
relativeTopOf(st, index, p, heights) ==
  getCompareItemRelativeTop(
    getItemRelativeTop(st.itemIndex, st.itemOffsetPtg, heights,
                       getScrollPercentage(ToNum(st.scrollTop), scrollHeightOf(p),
                                           p.height),
                       p.height, p.dataSource),
    st.itemIndex, index, st.startIndex, st.endIndex, p.dataSource, heights)

\* -------------------------------------------------------- componentDidUpdate
\* "Calculate top visible item top offset": the heights of the items of the
\* window before the located item are taken off its top
RECURSIVE startItemTopFrom(_, _, _, _, _)
startItemTopFrom(index, startIndex, top, dataSource, heights) ==
  IF index < startIndex THEN top
  ELSE startItemTopFrom(index - 1, startIndex,
                        top - HeightOf(heights, getIndexKey(index, dataSource)),
                        dataSource, heights)

\* this.cachedProps.dataSource || []
prevDataSourceOf(cached) == IF cached.set THEN cached.dataSource ELSE <<>>

\* lengthChanged seeing a change at every render commit
lengthChanged_always(prevDataSource, p) == TRUE

\* prevDataSource.length !== dataSource.length && height
lengthChanged(prevDataSource, p) ==
  Len(prevDataSource) # Len(p.dataSource) /\ p.height # 0

\* measureDone without the status
measureDone_noStatus(st, startItemTop) == [st EXCEPT !.startItemTop = startItemTop]

\* the pending state after the MEASURE_START branch
measureDone(st, startItemTop) ==
  [st EXCEPT !.status = "MEASURE_DONE", !.startItemTop = startItemTop]

\* cacheProps keeping the dataSource it had
cacheProps_staleDataSource(p) ==
  [set |-> TRUE, dataSource |-> cachedProps.dataSource, disabled |-> p.disabled]

\* this.cachedProps = this.props
cacheProps(p) ==
  [set |-> TRUE, dataSource |-> p.dataSource, disabled |-> p.disabled]

\* updateSkips without the test of disabled
updateSkips_never(p) == FALSE

\* if (disabled) return
updateSkips(p) == p.disabled

\* the Relative Scroll Target of the reconciler
reconcileTarget(prevDataSource, p, heights) ==
  LET originLocatedItemRelativeTop ==
        getItemRelativeTop(state.itemIndex, state.itemOffsetPtg, heights,
                           getScrollPercentage(ToNum(state.scrollTop),
                                               Len(prevDataSource) * p.itemHeight,
                                               p.height),
                           p.height, prevDataSource)
      changedItemIndex == findListDiffIndex(prevDataSource, p.dataSource)
      originCompareItemIndex ==
        IF ToNum(changedItemIndex) - 1 < 0 THEN 0 ELSE changedItemIndex - 1
      originCompareItemTop ==
        getCompareItemRelativeTop(originLocatedItemRelativeTop, state.itemIndex,
                                  originCompareItemIndex, state.startIndex,
                                  state.endIndex, prevDataSource, heights)
  IN  [itemIndex |-> originCompareItemIndex, relativeTop |-> originCompareItemTop]

NoTarget == [itemIndex |-> 0, relativeTop |-> 0]

\* what componentDidUpdate leaves when it returns at once; dom: the container
\* keeps its scrollTop within the rendered content
updateSkipped(p) ==
  [state |-> state, heights |-> itemElementHeights, lock |-> lockScroll,
   dom |-> ClampScrollTop(listScrollTop, p), cached |-> cachedProps, raf |-> rafFirst,
   applied |-> FALSE, measured |-> FALSE, setState |-> FALSE,
   reconciles |-> FALSE, arg |-> NoTarget]

\* the ledger after the MEASURE_START branch
measuredHeights(p) ==
  IF state.status = "MEASURE_START"
  THEN collectItemHeights(state, p.dataSource, itemElementHeights)
  ELSE itemElementHeights

\* the pending state after the MEASURE_START branch, h1 the ledger after it
measuredState(p, dom, h1) ==
  IF state.status = "MEASURE_START"
  THEN measureDone(state,
                   startItemTopFrom(state.itemIndex - 1, state.startIndex,
                                    getItemAbsoluteTop(dom, state.itemIndex,
                                                       state.itemOffsetPtg, h1,
                                                       getElementScrollPercentage(dom, p),
                                                       p.height, p.dataSource),
                                    p.dataSource, h1))
  ELSE state

\* what the handler leaves when the length of the dataSource has not changed
updateUnreconciled(p, dom, st1, h1) ==
  [state |-> st1, heights |-> h1, lock |-> lockScroll, dom |-> dom,
   cached |-> cacheProps(p), raf |-> rafFirst, applied |-> FALSE,
   measured |-> (state.status = "MEASURE_START"),
   setState |-> (state.status = "MEASURE_START"),
   reconciles |-> FALSE, arg |-> NoTarget]

\* what the handler leaves after this.scrollTo(arg) of the reconciler, best the
\* outcome of its search
updateReconciled(p, dom, st1, h2, arg, best) ==
  [state |-> scrollToState(st1, best), heights |-> h2, lock |-> scrollToLock(best),
   dom |-> IF best.bestScrollTop # NULL THEN best.bestScrollTop ELSE dom,
   cached |-> cacheProps(p), raf |-> scrollToRaf(best),
   applied |-> (best.bestScrollTop # NULL),
   measured |-> (state.status = "MEASURE_START"),
   setState |-> (state.status = "MEASURE_START" \/ best.bestScrollTop # NULL),
   reconciles |-> TRUE, arg |-> arg]

\* the reconciler calls this.scrollTo(arg); scrollTo reads this.state, which the
\* setState of the MEASURE_START branch has not changed yet
updateScrollTo(p, dom, st1, h2, arg) ==
  updateReconciled(p, dom, st1, h2, arg, search(arg, state.scrollTop, p, h2))

\* "Re-calculate the item position since dataSource length changed", h2 the
\* ledger after "1. Refresh item heights"
updateReconcile(p, dom, st1, h2) ==
  updateScrollTo(p, dom, st1, h2,
                 reconcileTarget(prevDataSourceOf(cachedProps), p, h2))

\* the handler past its test of disabled, h1 the ledger after the MEASURE_START
\* branch
updateMeasured(p, dom, h1) ==
  IF lengthChanged(prevDataSourceOf(cachedProps), p)
  THEN updateReconcile(p, dom, measuredState(p, dom, h1),
                       collectItemHeights(state, p.dataSource, h1))
  ELSE updateUnreconciled(p, dom, measuredState(p, dom, h1), h1)

\* the whole handler, run with this.props = p after the render of p and
\* this.state: what it leaves in each field
componentDidUpdate(p) ==
  IF updateSkips(p) THEN updateSkipped(p)
  ELSE updateMeasured(p, ClampScrollTop(listScrollTop, p), measuredHeights(p))

\* ------------------------------------------------------------------ history
\* what the last handler was and did: op, the handler; same, onScroll saw the
\* scrollTop it had recorded; applied / missed, scrollTo found a best candidate
\* or none; front, the reconciler ran for an item inserted at the front;
\* roundTrip, scrollTo was asked to put the located item where it is;
\* measured, componentDidUpdate ran its MEASURE_START branch; threw, the
\* handler ended by a TypeError (a property of null), and React unmounts the
\* component
NoLast ==
  [op |-> "init", same |-> FALSE, applied |-> FALSE, missed |-> FALSE,
   front |-> FALSE, roundTrip |-> FALSE, measured |-> FALSE, threw |-> FALSE]

\* the index of a key in a dataSource, NULL when it is not there
IndexOfKey(key, dataSource) ==
  IF \E i \in 1..Len(dataSource) : dataSource[i] = key
  THEN (CHOOSE i \in 1..Len(dataSource) : dataSource[i] = key) - 1
  ELSE NULL

\* ------------------------------------------------------------------ actions
InitialState ==
  [status |-> "NONE", scrollTop |-> NULL, itemIndex |-> 0, itemOffsetPtg |-> <<0, 1>>,
   startIndex |-> 0, endIndex |-> 0, startItemTop |-> 0]

\* the instance fields after construction
InitInstance ==
  /\ cachedProps = [set |-> FALSE, dataSource |-> <<>>, disabled |-> FALSE]
  /\ state = InitialState
  /\ itemElementHeights = [k \in LedgerKeys |-> ABSENT]
  /\ lockScroll = FALSE
  /\ listScrollTop = 0
  /\ scrollEvent = FALSE
  /\ rafFirst = FALSE
  /\ rafSecond = FALSE
  /\ mounted = FALSE
  /\ renderPending = FALSE
  /\ ownerCalls = 0
  /\ last = NoLast

Init ==
  /\ \E n \in 0..MaxLen :
       /\ props \in {[dataSource |-> [i \in 1..n |-> i], disabled |-> d,
                      itemHeight |-> ItemHeight, height |-> Height] : d \in BOOLEAN}
       /\ nextKey = n + 1
  /\ nodeHeights \in NodeHeightProfiles
  /\ InitInstance
  /\ loop = searchStart
  /\ loopArg = NoTarget

\* componentDidMount of a virtual list: scrollTop = 0, then onScroll()
mountVirtualList ==
  /\ mounted' = TRUE
  /\ listScrollTop' = 0
  /\ state' = onScroll(0)
  /\ renderPending' = ~onScrollSkips(0)
  /\ last' = [NoLast EXCEPT !.op = "mount"]

\* componentDidMount of a pure list: this.listRef.current is null, and
\* "this.listRef.current.scrollTop = 0" throws
mountPureList ==
  /\ last' = [NoLast EXCEPT !.op = "mount", !.threw = TRUE]
  /\ UNCHANGED <<mounted, listScrollTop, state, renderPending>>

componentDidMount ==
  /\ ~mounted /\ ~last.threw
  /\ IF rendersPureList(props) THEN mountPureList ELSE mountVirtualList
  /\ UNCHANGED <<props, cachedProps, itemElementHeights, lockScroll, scrollEvent,
                 rafFirst, rafSecond, nodeHeights, nextKey, ownerCalls, loop, loopArg>>

\* the container's scrollTop is set: scrollTo(arg) with a number, or the user
\* dragging the scroll bar
SetScrollTop(v) ==
  /\ mounted /\ ~renderPending
  /\ v # listScrollTop
  /\ listScrollTop' = v
  /\ scrollEvent' = TRUE
  /\ last' = [NoLast EXCEPT !.op = "setScrollTop"]
  /\ UNCHANGED <<props, cachedProps, state, itemElementHeights, lockScroll,
                 rafFirst, rafSecond, mounted, renderPending, nodeHeights, nextKey,
                 ownerCalls, loop, loopArg>>

\* the container delivers its scroll notification: onScroll
ScrollEvent ==
  /\ mounted /\ ~renderPending
  /\ scrollEvent
  /\ scrollEvent' = FALSE
  /\ state' = onScroll(listScrollTop)
  /\ renderPending' = ~onScrollSkips(listScrollTop)
  /\ last' = [NoLast EXCEPT !.op = "onScroll",
                            !.same = (listScrollTop = state.scrollTop)]
  /\ UNCHANGED <<props, cachedProps, itemElementHeights, lockScroll, listScrollTop,
                 rafFirst, rafSecond, mounted, nodeHeights, nextKey, ownerCalls,
                 loop, loopArg>>

\* a frame boundary: the scheduled inner callbacks release the lock, the
\* scheduled outer callbacks schedule their inner callbacks
Frame ==
  /\ ~renderPending
  /\ rafFirst \/ rafSecond
  /\ lockScroll' = (IF rafSecond THEN rafUnlock(lockScroll) ELSE lockScroll)
  /\ rafSecond' = rafFirst
  /\ rafFirst' = FALSE
  /\ last' = [NoLast EXCEPT !.op = "frame"]
  /\ UNCHANGED <<props, cachedProps, state, itemElementHeights, listScrollTop,
                 scrollEvent, mounted, renderPending, nodeHeights, nextKey,
                 ownerCalls, loop, loopArg>>

\* scrollTo(arg) after its search, best the outcome of the search and top the
\* relative top of the located item before the call
scrollToApply(arg, best, top) ==
  /\ state' = scrollToState(state, best)
  /\ lockScroll' = scrollToLock(best)
  /\ listScrollTop' = (IF best.bestScrollTop # NULL THEN best.bestScrollTop
                       ELSE listScrollTop)
  /\ scrollEvent' = (scrollEvent \/ (best.bestScrollTop # NULL
                                     /\ best.bestScrollTop # listScrollTop))
  /\ rafFirst' = scrollToRaf(best)
  /\ renderPending' = (best.bestScrollTop # NULL)
  /\ last' = [NoLast EXCEPT !.op = "scrollTo",
                            !.applied = (best.bestScrollTop # NULL),
                            !.missed = (best.bestScrollTop = NULL),
                            !.roundTrip = (arg.itemIndex = state.itemIndex
                                           /\ arg.relativeTop = top)]

\* scrollTo(arg) with a RelativeScroll, called by the owner of the component
ScrollToRelative(arg) ==
  /\ mounted /\ ~renderPending
  /\ ownerCalls < MaxOwnerCalls
  /\ ownerCalls' = ownerCalls + 1
  /\ scrollToApply(arg, search(arg, state.scrollTop, props, itemElementHeights),
                   relativeTopOf(state, state.itemIndex, props, itemElementHeights))
  /\ UNCHANGED <<props, cachedProps, itemElementHeights, rafSecond, mounted,
                 nodeHeights, nextKey, loop, loopArg>>

\* the fields after componentDidUpdate, r what the handler leaves
commitUpdate(newProps, isFront, r) ==
  /\ props' = newProps
  /\ state' = r.state
  /\ itemElementHeights' = r.heights
  /\ lockScroll' = r.lock
  /\ listScrollTop' = r.dom
  /\ scrollEvent' = (scrollEvent \/ r.dom # listScrollTop)
  /\ cachedProps' = r.cached
  /\ rafFirst' = r.raf
  /\ renderPending' = r.setState
  /\ last' = [NoLast EXCEPT !.op = "update",
                            !.applied = r.applied,
                            !.missed = (r.reconciles /\ ~r.applied),
                            !.front = (r.reconciles /\ isFront
                                       /\ prevDataSourceOf(cachedProps)
                                            = props.dataSource),
                            !.measured = r.measured]

\* a render of newProps is committed: componentDidUpdate
Commit(newProps, isFront) ==
  /\ mounted
  /\ commitUpdate(newProps, isFront, componentDidUpdate(newProps))
  /\ UNCHANGED <<rafSecond, mounted, nodeHeights, loop, loopArg>>

\* the re-render React makes for a queued setState
Rerender ==
  /\ renderPending
  /\ Commit(props, FALSE)
  /\ UNCHANGED <<nextKey, ownerCalls>>

\* the owner renders with an item inserted before index pos, and with
\* props.disabled as it chooses
InsertItem(pos, disabled) ==
  /\ ~renderPending
  /\ ownerCalls < MaxOwnerCalls
  /\ ownerCalls' = ownerCalls + 1
  /\ Len(props.dataSource) < MaxLen
  /\ nextKey <= MaxKey
  /\ LET ds == props.dataSource
         newDs == SubSeq(ds, 1, pos) \o <<nextKey>> \o SubSeq(ds, pos + 1, Len(ds))
     IN  Commit([props EXCEPT !.dataSource = newDs, !.disabled = disabled], pos = 0)
  /\ nextKey' = nextKey + 1

\* the owner renders with the item at index pos removed, and with
\* props.disabled as it chooses
RemoveItem(pos, disabled) ==
  /\ ~renderPending
  /\ ownerCalls < MaxOwnerCalls
  /\ ownerCalls' = ownerCalls + 1
  /\ Len(props.dataSource) > MinLen
  /\ pos < Len(props.dataSource)
  /\ LET ds == props.dataSource
         newDs == SubSeq(ds, 1, pos) \o SubSeq(ds, pos + 2, Len(ds))
     IN  Commit([props EXCEPT !.dataSource = newDs, !.disabled = disabled], FALSE)
  /\ UNCHANGED nextKey

\* the owner renders with props.disabled flipped
SetDisabled ==
  /\ ~renderPending
  /\ ownerCalls < MaxOwnerCalls
  /\ ownerCalls' = ownerCalls + 1
  /\ Commit([props EXCEPT !.disabled = ~props.disabled], FALSE)
  /\ UNCHANGED nextKey

\* the arguments the owner passes to scrollTo: any index from before the first
\* item to past the ghost item, at the top of the viewport, at its middle, or
\* where the located item is now
ScrollTargets ==
  [itemIndex : (-1)..(MaxLen + 1),
   relativeTop : {0, Height \div 2,
                  relativeTopOf(state, state.itemIndex, props, itemElementHeights)}]

Next ==
  \/ componentDidMount
  \/ \E v \in 0..(MaxLen * ItemHeight - Height) :
       /\ v = ClampScrollTop(v, props)
       /\ SetScrollTop(v)
  \/ ScrollEvent
  \/ Frame
  \/ \E arg \in ScrollTargets : ScrollToRelative(arg)
  \/ Rerender
  \/ \E pos \in 0..MaxLen, disabled \in BOOLEAN :
       pos <= Len(props.dataSource) /\ InsertItem(pos, disabled)
  \/ \E pos \in 0..MaxLen, disabled \in BOOLEAN : RemoveItem(pos, disabled)
  \/ SetDisabled

Spec == Init /\ [][Next]_vars

\* ------------------------------------------- the search loop, step by step
\* a mounted, settled component with n items scrolled to the top, the middle or
\* the end, its ledger empty or holding the heights of every item; scrollTo is
\* entered with a target from before the first item to past the ghost item
InitSearch ==
  /\ \E n \in MinLen..SearchMaxLen :
       /\ props = [dataSource |-> [i \in 1..n |-> i], disabled |-> FALSE,
                   itemHeight |-> SearchItemHeight, height |-> 2 * SearchItemHeight]
       /\ nextKey = n + 1
  /\ nodeHeights \in NodeHeightProfiles
  /\ itemElementHeights \in
       {[k \in LedgerKeys |-> ABSENT],
        [k \in LedgerKeys |-> IF k \in 1..Len(props.dataSource)
                              THEN nodeHeights[k] ELSE ABSENT]}
  /\ listScrollTop \in {0, maxScrollTopOf(props) \div 2, maxScrollTopOf(props)}
  /\ LET r == getRangeIndex(getElementScrollPercentage(listScrollTop, props),
                            Len(props.dataSource), visibleCountOf(props))
         top == getItemAbsoluteTop(listScrollTop, r.itemIndex, r.itemOffsetPtg,
                                   itemElementHeights,
                                   getElementScrollPercentage(listScrollTop, props),
                                   props.height, props.dataSource)
     IN  state = [status |-> "MEASURE_DONE", scrollTop |-> listScrollTop,
                  itemIndex |-> r.itemIndex, itemOffsetPtg |-> r.itemOffsetPtg,
                  startIndex |-> r.startIndex, endIndex |-> r.endIndex,
                  startItemTop |-> startItemTopFrom(r.itemIndex - 1, r.startIndex, top,
                                                    props.dataSource,
                                                    itemElementHeights)]
  /\ cachedProps = cacheProps(props)
  /\ lockScroll = FALSE
  /\ scrollEvent = FALSE
  /\ rafFirst = FALSE
  /\ rafSecond = FALSE
  /\ mounted = TRUE
  /\ renderPending = FALSE
  /\ ownerCalls = 0
  /\ last = NoLast
  /\ loop = searchStart
  /\ loopArg \in [itemIndex : {-1, 0, MinLen - 1, Len(props.dataSource),
                               Len(props.dataSource) + 1},
                  relativeTop : {0, SearchItemHeight}]

\* the loop test and, when it passes, one iteration of the loop body
SearchStep ==
  /\ ~loop.done
  /\ loop' = searchStep(loop, loopArg, state.scrollTop, props, itemElementHeights)
  /\ UNCHANGED <<props, cachedProps, state, itemElementHeights, lockScroll,
                 listScrollTop, scrollEvent, rafFirst, rafSecond, mounted,
                 renderPending, nodeHeights, nextKey, ownerCalls, last, loopArg>>

\* "2. Re-scroll if has best scroll match": the rest of scrollTo after its loop
SearchApply ==
  /\ loop.done
  /\ last.op # "scrollTo"
  /\ scrollToApply(loopArg, loop,
                   relativeTopOf(state, state.itemIndex, props, itemElementHeights))
  /\ UNCHANGED <<props, cachedProps, itemElementHeights, rafSecond, mounted,
                 nodeHeights, nextKey, ownerCalls, loop, loopArg>>

SearchNext == SearchStep \/ SearchApply

\* scrollTo is sequential code: it keeps taking its next step
SpecSearch ==
  InitSearch /\ [][SearchNext]_vars /\ WF_vars(SearchStep) /\ WF_vars(SearchApply)

\* ===================================================================== claims
\* C1, as claimed: whenever the status is not NONE, the located item index lies
\* within the render window: startIndex <= itemIndex <= endIndex
C1_LocatedWithinWindow ==
  state.status # "NONE" =>
    (state.startIndex <= state.itemIndex /\ state.itemIndex <= state.endIndex)

\* C1, amended: whenever the status is not NONE, startIndex <= itemIndex, and
\* itemIndex <= endIndex unless the located item is the ghost item one past the
\* window (scroll fraction 1), whose offset fraction is 0
C1_LocatedWithinWindowOrGhost ==
  state.status # "NONE" =>
    /\ state.startIndex <= state.itemIndex
    /\ \/ state.itemIndex <= state.endIndex
       \/ (state.itemIndex = state.endIndex + 1 /\ state.itemOffsetPtg[1] = 0)

\* a scroll to the end has located the ghost item
C1_Witness ==
  /\ state.status # "NONE"
  /\ state.itemIndex = state.endIndex + 1
  /\ state.itemIndex = Len(props.dataSource)
  /\ state.scrollTop = maxScrollTopOf(props)

\* C2, as claimed: when an item is inserted at the front and the reconciler has
\* run, the item located before the insert is in the render window and its
\* relative top is within 1 pixel of its relative top before the insert
C2_FrontInsertKeepsLocatedItem ==
  [][(last'.op = "update" /\ last'.front /\ state.status = "MEASURE_DONE"
        /\ getIndexKey(state.itemIndex, props.dataSource) \in Keys)
     => LET key == getIndexKey(state.itemIndex, props.dataSource)
            before == relativeTopOf(state, state.itemIndex, props, itemElementHeights)
            index == IndexOfKey(key, props'.dataSource)
        IN  /\ state'.startIndex <= index
            /\ index <= state'.endIndex
            /\ Abs(relativeTopOf(state', index, props', itemElementHeights') - before)
                 <= 1]_vars

\* C3: a scroll event handled while the container's scrollTop equals
\* state.scrollTop changes no field of the positioning state
C3_SameScrollTopIsNoOp ==
  [][(last'.op = "onScroll" /\ listScrollTop = state.scrollTop) => state' = state]_vars

\* onScroll ran on an unchanged scrollTop with the lock free and not disabled
C3_Witness ==
  last.op = "onScroll" /\ last.same /\ ~lockScroll /\ ~props.disabled

\* C4, as claimed: from an application of scrollTo until two frame boundaries
\* have passed after it (a callback of its requestAnimationFrame chain is
\* still scheduled), the scroll lock is held
C4_LockHeldForTwoFrames == (rafFirst \/ rafSecond) => lockScroll

\* C5: a scrollTo that finds no candidate leaves the container's scrollTop, the
\* positioning state, the scroll lock and the scheduled callbacks as they were
C5_MissChangesNothing ==
  [][(last'.op = "scrollTo" /\ last'.missed)
     => UNCHANGED <<listScrollTop, state, lockScroll, rafFirst, rafSecond,
                    scrollEvent, renderPending>>]_vars

\* scrollTo was called with an index past the ghost item and found nothing
C5_Witness == last.op = "scrollTo" /\ last.missed /\ ~lockScroll

\* C6: the search loop of scrollTo ends for every target, also one outside the
\* dataSource; it has then evaluated at most maxScrollTop candidates, and it
\* ends by the miss counter passing the boundary or by the loop test failing
C6_SearchEndsWithinMaxScrollTop ==
  /\ [](loop.visited <= maxScrollTopOf(props))
  /\ <>(loop.done)
  /\ [](loop.done => (\/ missesOut(loop.missSimilarity)
                      \/ loop.i >= maxScrollTopOf(props)))

\* the search for an index past the ghost item has ended, by its loop test,
\* after maxScrollTop candidates
C6_Witness ==
  /\ loop.done
  /\ loopArg.itemIndex > Len(props.dataSource)
  /\ loop.visited = maxScrollTopOf(props)
  /\ loop.bestScrollTop = NULL

\* C6, the other exit: the search has ended by its miss counter
C6_MissCounterExit ==
  loop.done /\ missesOut(loop.missSimilarity) /\ loop.i < maxScrollTopOf(props)

\* C7: while props.disabled is true, neither onScroll nor componentDidUpdate
\* changes the positioning state or the height ledger
C7_DisabledFreezes ==
  [][(last'.op \in {"mount", "onScroll", "update"} /\ props'.disabled)
     => (state' = state /\ itemElementHeights' = itemElementHeights)]_vars

\* componentDidUpdate ran while disabled with a measurement pending
C7_Witness ==
  last.op = "update" /\ props.disabled /\ state.status = "MEASURE_START"

\* C8, as claimed: after every render commit the cached props are the latest
\* props
C8_CachedPropsAreLatest ==
  last.op = "update" =>
    /\ cachedProps.set
    /\ cachedProps.dataSource = props.dataSource
    /\ cachedProps.disabled = props.disabled

\* C8, amended: a render commit with disabled false leaves the cached props
\* equal to the latest props; a render commit with disabled true leaves the
\* cached props as they were
C8_CachedPropsAreLatestUnlessDisabled ==
  [][last'.op = "update"
     => IF props'.disabled THEN cachedProps' = cachedProps
        ELSE /\ cachedProps'.set
             /\ cachedProps'.dataSource = props'.dataSource
             /\ cachedProps'.disabled = props'.disabled]_vars

\* a render commit of a changed dataSource has cached it
C8_Witness ==
  /\ last.op = "update" /\ ~props.disabled
  /\ cachedProps.dataSource = props.dataSource
  /\ Len(props.dataSource) # nextKey - 1

\* C9, as claimed: the status starts NONE; while not disabled, a scroll event
\* that changes the scrollTop and an applied scrollTo set MEASURE_START; a
\* render commit of a MEASURE_START state leaves MEASURE_DONE
C9_Lifecycle ==
  /\ state.status = "NONE"
  /\ [][/\ (last'.op \in {"mount", "onScroll"} /\ ~last'.threw /\ ~props.disabled
              /\ listScrollTop' # state.scrollTop)
           => state'.status = "MEASURE_START"
        /\ (last'.op \in {"scrollTo", "update"} /\ last'.applied)
           => state'.status = "MEASURE_START"
        /\ (last'.op = "update" /\ ~props'.disabled /\ state.status = "MEASURE_START")
           => state'.status = "MEASURE_DONE"]_vars

\* C9, amended: the status starts NONE; while not disabled and the scroll lock
\* is free, a scroll event that changes the scrollTop sets MEASURE_START; an
\* applied scrollTo sets MEASURE_START; a render commit of a MEASURE_START
\* state while not disabled leaves MEASURE_DONE, unless its reconciler applies
\* a scroll target, and then it leaves MEASURE_START
C9_LifecycleUnlessLockedOrReconciled ==
  /\ state.status = "NONE"
  /\ [][/\ (last'.op \in {"mount", "onScroll"} /\ ~last'.threw /\ ~props.disabled
              /\ ~lockScroll /\ listScrollTop' # state.scrollTop)
           => state'.status = "MEASURE_START"
        /\ (last'.op \in {"scrollTo", "update"} /\ last'.applied)
           => state'.status = "MEASURE_START"
        /\ (last'.op = "update" /\ ~props'.disabled /\ state.status = "MEASURE_START")
           => state'.status = (IF last'.applied THEN "MEASURE_START"
                               ELSE "MEASURE_DONE")]_vars

\* a render commit has measured and settled a scrolled state
C9_Witness ==
  /\ last.op = "update" /\ last.measured /\ ~last.applied
  /\ state.status = "MEASURE_DONE"
  /\ ToNum(state.scrollTop) > 0

\* the positioning state is what the Range Locator gives at the recorded
\* scrollTop for the dataSource of the props
C10_StateIsLocated ==
  LET r == getRangeIndex(getElementScrollPercentage(ToNum(state.scrollTop), props),
                         Len(props.dataSource), visibleCountOf(props))
  IN  /\ state.status # "NONE"
      /\ state.itemIndex = r.itemIndex
      /\ state.itemOffsetPtg = r.itemOffsetPtg
      /\ state.startIndex = r.startIndex
      /\ state.endIndex = r.endIndex

C11_WindowWithinCollection ==
  Len(props.dataSource) >= 1 =>
    /\ 0 <= state.startIndex
    /\ state.startIndex <= state.endIndex
    /\ state.endIndex <= Len(props.dataSource) - 1

\* x <= y for two fractions
C12_Leq(x, y) == x[1] * y[2] <= y[1] * x[2]

\* the scroll fraction, as a function of the scroll offset for one geometry, is
\* non-decreasing (from each offset to the next), 0 at offset 0, 1 at the greatest offset, and 0 everywhere
\* when the content fits the viewport
C12_Laws(scrollHeight, clientHeight) ==
  LET maxOffset == scrollHeight - clientHeight
      offsets == 0..(Max(maxOffset, 0) + 1)
  IN  /\ \A a \in offsets :
           a + 1 \in offsets
             => C12_Leq(getScrollPercentage(a, scrollHeight, clientHeight),
                        getScrollPercentage(a + 1, scrollHeight, clientHeight))
      /\ getScrollPercentage(0, scrollHeight, clientHeight) = <<0, 1>>
      /\ maxOffset > 0
           => getScrollPercentage(maxOffset, scrollHeight, clientHeight) = <<1, 1>>
      /\ maxOffset <= 0
           => \A a \in offsets :
                getScrollPercentage(a, scrollHeight, clientHeight) = <<0, 1>>

C13_EmptyListNeverFails ==
  Len(props.dataSource) = 0 =>
    /\ ~last.threw
    /\ {i \in state.startIndex..state.endIndex : i < Len(props.dataSource)} = {}
    /\ getIndexKey(state.itemIndex, props.dataSource) = GHOST_ITEM_KEY

\* C14: the measurement pass run twice with no render in between leaves the
\* ledger as the first run left it: so for every ledger the component reaches,
\* and so in a render commit that runs the pass for its pending measurement
\* and again for its reconciliation
C14_MeasureTwiceIsMeasureOnce ==
  /\ [](collectItemHeights(state, props.dataSource,
                           collectItemHeights(state, props.dataSource, itemElementHeights))
        = collectItemHeights(state, props.dataSource, itemElementHeights))
  /\ [][(last'.op = "update" /\ ~updateSkips(props') /\ state.status = "MEASURE_START"
           /\ lengthChanged(prevDataSourceOf(cachedProps), props'))
        => itemElementHeights'
             = collectItemHeights(state, props'.dataSource, itemElementHeights)]_vars

\* a render commit has run the pass twice over a window of several items
C14_Witness ==
  /\ last.op = "update" /\ last.measured /\ last.applied
  /\ state.startIndex < state.endIndex
  /\ \E k \in Keys : itemElementHeights[k] # ABSENT

\* C15, as claimed: the search of scrollTo stops after 10 consecutive
\* candidates have failed to improve on the best score: once the count of
\* consecutive misses is 10 it evaluates no further candidate
C15_StopsAfterTenMisses ==
  [][loop.missSimilarity >= MISS_BOUNDARY => loop'.visited = loop.visited]_vars

\* the scroll offset of the j-th candidate of the search run step by step
C16_Offset(j) ==
  getIndexByStartLoc(0, maxScrollTopOf(props), ToNum(state.scrollTop), j)

\* the positioning state the Range Locator gives at the j-th candidate
C16_Candidate(j) ==
  LET r == getRangeIndex(getScrollPercentage(C16_Offset(j), scrollHeightOf(props),
                                             props.height),
                         Len(props.dataSource), visibleCountOf(props))
  IN  [state EXCEPT !.scrollTop = C16_Offset(j), !.itemIndex = r.itemIndex,
                    !.itemOffsetPtg = r.itemOffsetPtg, !.startIndex = r.startIndex,
                    !.endIndex = r.endIndex]

\* the candidates the search has scored: visited, with the target in the window
C16_Evaluated ==
  {j \in 0..(loop.visited - 1) :
     /\ C16_Candidate(j).startIndex <= loopArg.itemIndex
     /\ loopArg.itemIndex <= C16_Candidate(j).endIndex}

\* the absolute difference of achieved and desired relative top at candidate j
C16_Difference(j) ==
  Abs(relativeTopOf(C16_Candidate(j), loopArg.itemIndex, props, itemElementHeights)
      - loopArg.relativeTop)

\* C16: the scroll offset scrollTo applies is the one of lowest absolute
\* difference of achieved and desired relative top among the candidates the
\* search evaluated, and among those of equal difference the one visited
\* first, which none of them is nearer to the scrollTop recorded before
C16_AppliesBestAndFirst ==
  [][(last'.op = "scrollTo" /\ last'.applied)
     => \E b \in C16_Evaluated :
          /\ listScrollTop' = C16_Offset(b)
          /\ state'.scrollTop = C16_Offset(b)
          /\ \A j \in C16_Evaluated :
               /\ C16_Difference(b) <= C16_Difference(j)
               /\ C16_Difference(j) = C16_Difference(b)
                    => /\ b <= j
                       /\ Abs(C16_Offset(b) - ToNum(state.scrollTop))
                            <= Abs(C16_Offset(j) - ToNum(state.scrollTop))]_vars

\* scrollTo has applied a best candidate that later evaluated candidates did
\* not improve on
C16_Witness ==
  /\ last.op = "scrollTo" /\ last.applied
  /\ listScrollTop = loop.bestScrollTop
  /\ loop.missSimilarity > 0
  /\ loop.bestSimilarity > 0

\* the search has ended with an evaluated candidate that ties with the best
C16_TieEvaluated ==
  /\ loop.done /\ loop.bestScrollTop # NULL /\ last.op = "init"
  /\ \E j \in C16_Evaluated :
       /\ C16_Offset(j) # loop.bestScrollTop
       /\ C16_Difference(j) = loop.bestSimilarity

\* the last handler was a render commit in which the reconciler ran (its
\* scroll request was applied, or found no candidate)
C17_Reconciled == last.op = "update" /\ (last.applied \/ last.missed)

\* C17, as claimed: the reconciler runs in a render commit only if the length
\* of the dataSource differs from its length at the previous render commit
\* (and so not in the render commit its own scroll request causes)
C17_ReconcilesOnlyOnLengthChange ==
  [][C17_Reconciled' => Len(props'.dataSource) # Len(props.dataSource)]_vars

\* C17, amended: the reconciler runs in a render commit only if the component
\* is not disabled and the length of the dataSource differs from the length
\* of the dataSource of the cached props (0 while nothing is cached); the
\* render commit that directly follows one in which it ran, with the same
\* props, does not run it again
C17_ReconcilesOnlyOnCachedLengthChange ==
  [][/\ C17_Reconciled'
          => /\ ~props'.disabled
             /\ Len(props'.dataSource) # Len(prevDataSourceOf(cachedProps))
     /\ (C17_Reconciled /\ last'.op = "update" /\ props' = props)
          => ~C17_Reconciled']_vars

\* the render commit caused by the reconciler's scroll request for a removed
\* item has measured without running the reconciler again
C17_Witness ==
  /\ last.op = "update" /\ last.measured /\ ~last.applied /\ ~last.missed
  /\ ownerCalls = 1 /\ Len(props.dataSource) < nextKey - 1
  /\ lockScroll /\ rafFirst /\ ~props.disabled
  /\ cachedProps.dataSource = props.dataSource

\* C18, as claimed: for every insertion or removal the reconciler runs for, the
\* item its scroll target designates in the new dataSource has the key of the
\* item of the previous dataSource whose relative top it computed
C18_TargetKeepsKey ==
  [][(last'.op = "update" /\ (last'.applied \/ last'.missed) /\ cachedProps.set)
     => getIndexKey(reconcileTarget(prevDataSourceOf(cachedProps), props',
                                    itemElementHeights').itemIndex,
                    props'.dataSource)
          = getIndexKey(reconcileTarget(prevDataSourceOf(cachedProps), props',
                                        itemElementHeights').itemIndex,
                        prevDataSourceOf(cachedProps))]_vars

\* C19, as claimed: a ledger entry changes only in a measurement pass (of a
\* render commit) and only under the key of a real item whose index is in the
\* render window of this.state; no entry is ever removed
C19_WritesOnlyWindowItems ==
  [][\A k \in LedgerKeys :
       /\ itemElementHeights[k] # ABSENT => itemElementHeights'[k] # ABSENT
       /\ itemElementHeights'[k] # itemElementHeights[k]
            => /\ last'.op = "update"
               /\ k \in Keys
               /\ \E i \in state.startIndex..state.endIndex :
                    i < Len(props'.dataSource) /\ getIndexKey(i, props'.dataSource) = k]_vars

\* C20, as claimed: a scroll of the user that arrives while the scroll lock is
\* held is not lost: when the component is mounted and not disabled, the lock
\* is free and no scroll event is undelivered, the scrollTop recorded in the
\* positioning state is the container's scrollTop
C20_RecordedScrollTopIsActual ==
  (mounted /\ ~lockScroll /\ ~props.disabled /\ ~scrollEvent)
    => state.scrollTop = listScrollTop

====
